---------------------------- MODULE Spec2Model ----------------------------
(***************************************************************************)
(* godbg: a browser-facing bridge over a gdblib debugging session.         *)
(*                                                                         *)
(* The module models src/godbg.go:                                         *)
(*   - the /output websocket handler (the event multiplexer loop), one     *)
(*     loop per accepted connection, selecting among the four gdblib       *)
(*     channels and a 30 second timer;                                     *)
(*   - the /handle/gdb/exit endpoint and main's wait for the session end;  *)
(*   - the /handle/... dispatcher endpoints (decode, invoke, encode).      *)
(*                                                                         *)
(* gdblib itself (GdbExit, Wait, the channels' producers, the command      *)
(* operations) is an external library: its behaviour is modelled from the  *)
(* design document and kept in separate, clearly marked definitions.       *)
(***************************************************************************)
EXTENDS Integers, Sequences, FiniteSets, TLC

(***************************************************************************)
(* Bounds of the model.                                                    *)
(***************************************************************************)
\* Number of client connections to /output that may be accepted.
MaxConns == 2
\* Total number of events the backend emits over all four channels.
MaxEvents == 2
\* Number of envelope writes one loop may attempt.
MaxAttempts == 3
\* Number of requests to /handle/gdb/exit.
MaxExitRequests == 1
\* Granularity of the model's clock, in seconds.
TickSeconds == 15

(***************************************************************************)
(* Program constants.                                                      *)
(***************************************************************************)
\* case <-time.After(30 * time.Second)
HeartbeatSeconds == 30

Conns == 1..MaxConns

\* The four receive-only channels of the gdblib session, by field name.
Channels == {"Console", "Target", "InternalLog", "AsyncResults"}

\* The Type each branch of the select puts in its webSockResult.
TypeOf(ch) ==
    CASE ch = "Console"      -> "console"
      [] ch = "Target"       -> "target"
      [] ch = "InternalLog"  -> "gdb"
      [] ch = "AsyncResults" -> "async"

\* webSockResult{Type: ..., Data: ...}
webSockResult(type, data) == [Type |-> type, Data |-> data]

\* json.Marshal(&webSockResult{...}): the payloads are strings and parsed
\* records, which always encode; the encoding keeps Type and Data apart.
MarshalAsyncFails(env) ==
    [err |-> env.Type = "async", bytes |-> <<env.Type, env.Data>>]

Marshal(env) == [err |-> FALSE, bytes |-> <<env.Type, env.Data>>]

Min(a, b) == IF a < b THEN a ELSE b

VARIABLES
    \* ---- the gdblib session (external collaborator)
    chan,        \* chan[ch]: events sent on channel ch and not yet received
    emitted,     \* emitted[ch]: number of events the backend sent on ch
    session,     \* "Active" or "Terminated"
    transitions, \* number of Active -> Terminated transitions so far
    exitCalls,   \* number of invocations of GdbExit so far
    \* ---- the /output handler, one loop per connection
    pc,          \* pc[c]: "none" (no connection) or "select" (loop running)
    writable,    \* writable[c]: whether ws.Write on c succeeds
    attempts,    \* attempts[c]: every ws.Write of loop c, with its outcome
    elapsed,     \* elapsed[c]: seconds since loop c's time.After was created
    sinceData,   \* sinceData[c]: seconds since c last got a data envelope
                 \*   (-1: never; it stops counting at HeartbeatSeconds)
    brokenFor,   \* brokenFor[c]: seconds c has been unwritable with the
                 \*   session still Active (-1: c is writable)
    \* ---- /handle/gdb/exit and main
    exitReqs,    \* number of requests to /handle/gdb/exit served
    mainpc,      \* "waiting", "finished" or "panicked"
    waitReturns, \* number of times mygdb.Wait() returned to main
    \* ---- the /handle/... dispatcher
    served,      \* number of dispatcher requests handled
    backendCalls,\* number of gdblib command operations invoked
    last,        \* the latest request: endpoint, body, what the handler
                 \*   invoked and what it did to its http.ResponseWriter
    pending,     \* the request whose handler is blocked in its gdblib
                 \*   operation, if there is one
    \* ---- the static file server, http.FileServer(cfs)
    serving,     \* whether cfs has been built and handed to http.Handle
    fs,          \* cfs.fs: the provider list, one http.Dir per bundle
    opened,      \* the latest cfs.Open: name, providers tried, what it returned
    listing      \* the latest Readdir on the handle in opened

muxVars == <<chan, emitted, session, transitions, exitCalls, pc,
             writable, attempts, elapsed, sinceData, brokenFor, exitReqs,
             mainpc, waitReturns>>

dispVars == <<served, backendCalls, last, pending>>

resVars == <<serving, fs, opened, listing>>

vars == <<muxVars, dispVars, resVars>>

(***************************************************************************)
(* gdblib, modelled from the design document (section 4.4): termination    *)
(* is a single idempotent operation that returns to its caller.            *)
(***************************************************************************)
GdbExit ==
    /\ session' = "Terminated"
    /\ transitions' = IF session = "Active" THEN transitions + 1 ELSE transitions
    /\ exitCalls' = exitCalls + 1

\* The main goroutine is still in mygdb.Wait(): the process is running.
Running == mainpc = "waiting"

TotalEmitted == emitted["Console"] + emitted["Target"]
                + emitted["InternalLog"] + emitted["AsyncResults"]

\* The backend sends its next event on channel ch.
Emit(ch) ==
    /\ Running
    /\ session = "Active"
    /\ TotalEmitted < MaxEvents
    /\ emitted' = [emitted EXCEPT ![ch] = @ + 1]
    /\ chan' = [chan EXCEPT ![ch] = Append(@, <<ch, emitted[ch] + 1>>)]
    /\ UNCHANGED <<dispVars, resVars, session, transitions, exitCalls, pc, writable,
                   attempts, elapsed, sinceData, brokenFor, exitReqs, mainpc, waitReturns>>

\* The debugger process ends on its own.
BackendExit ==
    /\ Running
    /\ session = "Active"
    /\ session' = "Terminated"
    /\ transitions' = transitions + 1
    /\ UNCHANGED <<dispVars, resVars, chan, emitted, exitCalls, pc, writable, attempts,
                   elapsed, sinceData, brokenFor, exitReqs, mainpc, waitReturns>>

(***************************************************************************)
(* The /output handler.                                                    *)
(***************************************************************************)
RECURSIVE SumLen(_)
SumLen(S) ==
    IF S = {} THEN 0
    ELSE LET c == CHOOSE x \in S : TRUE IN Len(attempts[c]) + SumLen(S \ {c})

\* The loops together may still attempt a write within the model's bound.
Budget == SumLen(Conns) < MaxAttempts

\* time.After(30 * time.Second) in the select: every iteration of loop c
\* waits on a timer of its own, created when the select begins.
NewTimerKept(c) == elapsed

NewTimer(c) == [elapsed EXCEPT ![c] = 0]

\* websocket.Handler(func(ws *websocket.Conn) { for { select { ... } } })
\* is started for every connection the server accepts.
Connect(c) ==
    /\ Running
    /\ pc[c] = "none"
    /\ \A d \in Conns : d < c => pc[d] # "none"
    /\ pc' = [pc EXCEPT ![c] = "select"]
    /\ elapsed' = NewTimer(c)
    /\ UNCHANGED <<dispVars, resVars, chan, emitted, session, transitions, exitCalls,
                   writable, attempts, sinceData, brokenFor, exitReqs, mainpc, waitReturns>>

\* The client goes away: from now on ws.Write on c fails.
Break(c) ==
    /\ Running
    /\ pc[c] # "none"
    /\ writable[c]
    /\ Budget
    /\ writable' = [writable EXCEPT ![c] = FALSE]
    /\ brokenFor' = [brokenFor EXCEPT ![c] = 0]
    /\ UNCHANGED <<dispVars, resVars, chan, emitted, session, transitions, exitCalls, pc,
                   attempts, elapsed, sinceData, exitReqs, mainpc, waitReturns>>

\* if err != nil { fmt.Printf("Client disconnect\n"); mygdb.GdbExit() }
\* in the branch that handles env.
OnWriteErrorHeartbeatIgnored(env) ==
    IF env.Type = "heartbeat"
    THEN UNCHANGED <<session, transitions, exitCalls>>
    ELSE GdbExit

OnWriteError(env) == GdbExit

\* The body of a branch of the select, the same in all five:
\*   bytes, err := json.Marshal(&webSockResult{...})
\*   if err == nil { _, err := ws.Write(bytes); if err != nil { ...GdbExit() } }
\* after which the for loop goes round and its select creates a new timer.
Branch(c, env) ==
    LET m  == Marshal(env)
        ok == writable[c]
    IN /\ attempts' = IF m.err THEN attempts
                      ELSE [attempts EXCEPT ![c] =
                               Append(@, [env |-> m.bytes, ok |-> ok])]
       /\ sinceData' = IF ~m.err /\ ok /\ env.Type # "heartbeat"
                       THEN [sinceData EXCEPT ![c] = 0]
                       ELSE sinceData
       /\ IF ~m.err /\ ~ok
          THEN OnWriteError(env)
          ELSE UNCHANGED <<session, transitions, exitCalls>>
       /\ elapsed' = NewTimer(c)

\* Which event a receive from channel ch yields: the oldest one.
Newest(ch) == [event |-> chan[ch][Len(chan[ch])],
               rest  |-> SubSeq(chan[ch], 1, Len(chan[ch]) - 1)]

Oldest(ch) == [event |-> Head(chan[ch]), rest |-> Tail(chan[ch])]

\* case data := <-mygdb.Console (Target, InternalLog, AsyncResults):
\* one iteration of the loop that takes an event of ch and sends it.
Deliver(c, ch) ==
    /\ Running
    /\ pc[c] = "select"
    /\ Budget
    /\ chan[ch] # <<>>
    /\ chan' = [chan EXCEPT ![ch] = Oldest(ch).rest]
    /\ Branch(c, webSockResult(TypeOf(ch), Oldest(ch).event))
    /\ UNCHANGED <<dispVars, resVars, emitted, pc, writable, brokenFor, exitReqs, mainpc, waitReturns>>

\* Whether the timer of loop c's current select has expired.
TimerExpiredEarly(c) == elapsed[c] >= TickSeconds

TimerExpired(c) == elapsed[c] >= HeartbeatSeconds

\* case <-time.After(30 * time.Second): one iteration that sends a heartbeat.
Heartbeat(c) ==
    /\ Running
    /\ pc[c] = "select"
    /\ Budget
    /\ TimerExpired(c)
    /\ Branch(c, webSockResult("heartbeat", ""))
    /\ UNCHANGED <<dispVars, resVars, chan, emitted, pc, writable, brokenFor, exitReqs, mainpc,
                   waitReturns>>

\* Time passes, TickSeconds at a time, while every loop is blocked in its
\* select and no loop's timer has expired: an expired timer makes its case
\* ready, and the steps of a branch take no time.  A loop the model's bound
\* has stopped is left out.
Tick ==
    /\ Running
    /\ \A c \in Conns : (pc[c] = "select" /\ Budget) => ~TimerExpired(c)
    /\ \E c \in Conns : pc[c] = "select" /\ ~TimerExpired(c)
    /\ elapsed' = [c \in Conns |->
                     IF pc[c] = "select" /\ ~TimerExpired(c)
                     THEN elapsed[c] + TickSeconds
                     ELSE elapsed[c]]
    /\ sinceData' = [c \in Conns |->
                       IF sinceData[c] < 0 THEN sinceData[c]
                       ELSE Min(sinceData[c] + TickSeconds, HeartbeatSeconds)]
    /\ brokenFor' = [c \in Conns |->
                       IF brokenFor[c] < 0 \/ session # "Active"
                       THEN brokenFor[c]
                       ELSE Min(brokenFor[c] + TickSeconds, 2 * HeartbeatSeconds)]
    /\ UNCHANGED <<dispVars, resVars, chan, emitted, session, transitions, exitCalls, pc,
                   writable, attempts, exitReqs, mainpc, waitReturns>>

(***************************************************************************)
(* /handle/gdb/exit and main.                                              *)
(***************************************************************************)
\* http.HandleFunc("/handle/gdb/exit", ...): mygdb.GdbExit()
ExitEndpoint ==
    /\ Running
    /\ exitReqs < MaxExitRequests
    /\ GdbExit
    /\ exitReqs' = exitReqs + 1
    /\ UNCHANGED <<dispVars, resVars, chan, emitted, pc, writable, attempts, elapsed,
                   sinceData, brokenFor, mainpc, waitReturns>>

\* err = mygdb.Wait(); if err != nil { panic(err) }; "Server finished".
\* Either way the process ends, and its goroutines with it.
MainWaitAgain ==
    /\ mainpc = "waiting"
    /\ session = "Terminated"
    /\ waitReturns' = waitReturns + 1
    /\ mainpc' = "waiting"
    /\ UNCHANGED <<dispVars, resVars, chan, emitted, session, transitions, exitCalls, pc,
                   writable, attempts, elapsed, sinceData, brokenFor, exitReqs>>

MainWait ==
    /\ mainpc = "waiting"
    /\ session = "Terminated"
    /\ waitReturns' = waitReturns + 1
    /\ \E err \in BOOLEAN : mainpc' = IF err THEN "panicked" ELSE "finished"
    /\ UNCHANGED <<dispVars, resVars, chan, emitted, session, transitions, exitCalls, pc,
                   writable, attempts, elapsed, sinceData, brokenFor, exitReqs>>

(***************************************************************************)
(* The dispatcher: one handler per endpoint, registered by                 *)
(* addExecHandlers, addBreakpointHandlers, addThreadHandlers and           *)
(* addFrameHandlers.  A handler decodes the body, invokes its gdblib       *)
(* operation, and answers on its http.ResponseWriter.                      *)
(***************************************************************************)
\* Number of dispatcher requests the model follows.
MaxRequests == 3

Nil == ""

\* The Go zero value of a field, and a value a client may supply.
ZeroValue == "zero"
FieldValues == {ZeroValue, "v1"}

\* A request body: text that is not JSON, no text at all, or a JSON object
\* in which each of the two fields of the parameter type is absent, of the
\* wrong JSON type, or given a value.
FieldTexts == {"absent", "badtype"} \cup FieldValues

Bodies ==
    {[kind |-> "syntax", f1 |-> "absent", f2 |-> "absent"],
     [kind |-> "empty", f1 |-> "absent", f2 |-> "absent"]}
    \cup [kind : {"object"}, f1 : FieldTexts, f2 : FieldTexts]

NoBody == [kind |-> "none", f1 |-> "absent", f2 |-> "absent"]

\* What encoding/json leaves in a field: the value given, or the zero value
\* the struct started with (parms := gdblib.XxxParms{}).
FieldAfterDecode(text) == IF text \in FieldValues THEN text ELSE ZeroValue

\* decoder := json.NewDecoder(r.Body); err := decoder.Decode(&parms)
DecodeLenient(body) ==
    [err   |-> Nil,
     parms |-> [f1 |-> FieldAfterDecode(body.f1), f2 |-> FieldAfterDecode(body.f2)]]

Decode(body) ==
    [err   |-> CASE body.kind = "syntax" -> "invalid character"
                 [] body.kind = "empty"  -> "EOF"
                 [] body.f1 = "badtype" \/ body.f2 = "badtype"
                                         -> "json: cannot unmarshal"
                 [] OTHER                -> Nil,
     parms |-> [f1 |-> FieldAfterDecode(body.f1), f2 |-> FieldAfterDecode(body.f2)]]

NoParms == [f1 |-> ZeroValue, f2 |-> ZeroValue]

\* What a gdblib command operation may return: a result, one of them not
\* encodable, or an error.
OpOutcomes ==
    {[err |-> Nil, result |-> "r1"],
     [err |-> Nil, result |-> "unencodable"],
     [err |-> "backend error", result |-> Nil]}

\* What a handler holds as (result, err) when it invoked no operation.
NoOutcome == [err |-> Nil, result |-> Nil]

\* resultBytes, err := json.Marshal(result)
MarshalResult(result) ==
    [err   |-> IF result = "unencodable" THEN "json: unsupported value" ELSE Nil,
     bytes |-> IF result = "unencodable" THEN Nil ELSE "\"r1\""]

\* The calls a handler makes on its http.ResponseWriter.
\* <<method, status code, text>>.
WriteHeader(code) == <<"WriteHeader", code, Nil>>
WriteBody(text) == <<"Write", 0, text>>

\* w.WriteHeader(code); w.Write([]byte(err.Error()))
ErrorResponse(code, text) == <<WriteHeader(code), WriteBody(text)>>

ExecEndpoints ==
    {"/handle/exec/next", "/handle/exec/step", "/handle/exec/continue",
     "/handle/exec/run", "/handle/exec/interrupt"}

\* Endpoints that decode parameters and encode a result.
ParmDataEndpoints ==
    {"/handle/thread/select", "/handle/thread/info", "/handle/frame/stacklist",
     "/handle/frame/variableslist", "/handle/breakpoint/insert"}

\* Endpoints that take no parameters and encode a result.
ListEndpoints ==
    {"/handle/thread/listids", "/handle/frame/stackinfo", "/handle/breakpoint/list"}

EnableEndpoints == {"/handle/breakpoint/enable", "/handle/breakpoint/disable"}

\* Endpoints whose handler decodes parameters for a gdblib operation.
ParmEndpoints == ExecEndpoints \cup ParmDataEndpoints \cup EnableEndpoints

\* The gdblib operation each endpoint is bound to.
OpOf(ep) ==
    CASE ep = "/handle/exec/next"           -> "ExecNext"
      [] ep = "/handle/exec/step"           -> "ExecStep"
      [] ep = "/handle/exec/continue"       -> "ExecContinue"
      [] ep = "/handle/exec/run"            -> "ExecRun"
      [] ep = "/handle/exec/interrupt"      -> "ExecInterrupt"
      [] ep = "/handle/thread/listids"      -> "ThreadListIds"
      [] ep = "/handle/thread/select"       -> "ThreadSelect"
      [] ep = "/handle/thread/info"         -> "ThreadInfo"
      [] ep = "/handle/frame/stackinfo"     -> "StackInfoFrame"
      [] ep = "/handle/frame/stacklist"     -> "StackListFrames"
      [] ep = "/handle/frame/variableslist" -> "StackListVariables"
      [] ep = "/handle/breakpoint/list"     -> "BreakList"
      [] ep = "/handle/breakpoint/insert"   -> "BreakInsert"
      [] ep = "/handle/breakpoint/enable"   -> "BreakEnable"
      [] ep = "/handle/breakpoint/disable"  -> "BreakDisable"

\* The status a handler gives when its operation returned an error:
\* w.WriteHeader(400) everywhere but in /handle/breakpoint/list, which has
\* w.WriteHeader(500).
BackendErrorStatus(ep) == IF ep = "/handle/breakpoint/list" THEN 500 ELSE 400

\* The end of a handler that returns data:
\*   resultBytes, err := json.Marshal(result)
\*   if err != nil { 500, err.Error() } else { 200, resultBytes }
EncodeResponseAlways200(result) ==
    LET m == MarshalResult(result)
    IN <<WriteHeader(200), WriteBody(IF m.err # Nil THEN m.err ELSE m.bytes)>>

EncodeResponse(result) ==
    LET m == MarshalResult(result)
    IN IF m.err # Nil THEN ErrorResponse(500, m.err)
       ELSE <<WriteHeader(200), WriteBody(m.bytes)>>

\* No handler is blocked in a gdblib operation.
NoRequest == [ep |-> "none", body |-> NoBody, parms |-> NoParms]

\* The handler's record of one request, when it returns.
Handled(ep, body, invoked, out, resp) ==
    /\ served < MaxRequests
    /\ served' = served + 1
    /\ backendCalls' = backendCalls + Len(invoked)
    /\ last' = [ep |-> ep,
                body |-> [kind |-> body.kind, f1 |-> body.f1, f2 |-> body.f2],
                invoked |-> invoked, opErr |-> out.err, result |-> out.result,
                opens |-> <<>>, copyErr |-> Nil, resp |-> resp]
    /\ pending' = NoRequest
    /\ UNCHANGED <<muxVars, resVars>>

Call(ep, parms) ==
    <<[op |-> OpOf(ep), parms |-> [f1 |-> parms.f1, f2 |-> parms.f2]]>>

\* addExecHandlers: err := decoder.Decode(&parms); if err == nil
\* { err = mygdb.ExecXxx(parms) }; if err != nil { 400, err.Error(); return };
\* w.WriteHeader(200)
ExecHandler(ep) ==
    /\ Running
    /\ \E body \in Bodies : \E out \in OpOutcomes :
        LET d       == Decode(body)
            invoked == IF d.err = Nil THEN Call(ep, d.parms) ELSE <<>>
            ret     == IF d.err = Nil THEN out ELSE NoOutcome
            err     == IF d.err = Nil THEN out.err ELSE d.err
        IN Handled(ep, body, invoked, ret,
                   IF err # Nil THEN ErrorResponse(400, err)
                   ELSE <<WriteHeader(200)>>)

\* /handle/thread/select, /handle/thread/info, /handle/frame/stacklist,
\* /handle/frame/variableslist, /handle/breakpoint/insert: decode (400 and
\* return on error), invoke (400 and return on error), encode.
ParmDataHandler(ep) ==
    /\ Running
    /\ \E body \in Bodies : \E out \in OpOutcomes :
        LET d == Decode(body)
        IN IF d.err # Nil
           THEN Handled(ep, body, <<>>, NoOutcome, ErrorResponse(400, d.err))
           ELSE Handled(ep, body, Call(ep, d.parms), out,
                        IF out.err # Nil
                        THEN ErrorResponse(BackendErrorStatus(ep), out.err)
                        ELSE EncodeResponse(out.result))

\* /handle/thread/listids, /handle/frame/stackinfo, /handle/breakpoint/list:
\* invoke (error status and return on error), encode.
ListHandler(ep) ==
    /\ Running
    /\ \E out \in OpOutcomes :
        Handled(ep, NoBody, Call(ep, NoParms), out,
                IF out.err # Nil
                THEN ErrorResponse(BackendErrorStatus(ep), out.err)
                ELSE EncodeResponse(out.result))

\* /handle/breakpoint/enable, /handle/breakpoint/disable: decode (400 and
\* return on error), invoke (400 and return on error), w.WriteHeader(200).
EnableHandler(ep) ==
    /\ Running
    /\ \E body \in Bodies : \E out \in OpOutcomes :
        LET d == Decode(body)
        IN IF d.err # Nil
           THEN Handled(ep, body, <<>>, NoOutcome, ErrorResponse(400, d.err))
           ELSE Handled(ep, body, Call(ep, d.parms), out,
                        IF out.err # Nil
                        THEN ErrorResponse(BackendErrorStatus(ep), out.err)
                        ELSE <<WriteHeader(200)>>)

\* What a handler does once its operation has returned out, by the kind
\* of its endpoint: 400 (500 in /handle/breakpoint/list) with the error's
\* text; else 200 alone for a pure command, the encoded result otherwise.
AfterInvoke(ep, out) ==
    IF out.err # Nil THEN ErrorResponse(BackendErrorStatus(ep), out.err)
    ELSE IF ep \in ExecEndpoints \cup EnableEndpoints THEN <<WriteHeader(200)>>
    ELSE EncodeResponse(out.result)

\* gdblib, modelled from the design document (section 3): an operation
\* invoked or still running once the session is Terminated fails with an
\* error.
TerminatedOutcome == [err |-> "session terminated", result |-> Nil]

BackendOutcomes ==
    IF session = "Active" THEN OpOutcomes ELSE {TerminatedOutcome}

\* A handler has decoded its body, if it takes one, and calls its gdblib
\* operation: result, err := mygdb.Xxx(parms) blocks until the backend
\* answers.
Invoke(ep) ==
    /\ Running
    /\ pending.ep = "none"
    /\ served < MaxRequests
    /\ \E body \in Bodies \cup {NoBody} :
          /\ (body.kind = "none") <=> (ep \in ListEndpoints)
          /\ body.kind # "none" => Decode(body).err = Nil
          /\ pending' = [ep |-> ep,
                         body |-> [kind |-> body.kind, f1 |-> body.f1, f2 |-> body.f2],
                         parms |-> IF body.kind = "none"
                                   THEN [f1 |-> NoParms.f1, f2 |-> NoParms.f2]
                                   ELSE Decode(body).parms]
    /\ UNCHANGED <<muxVars, resVars, served, backendCalls, last>>

\* The operation returns and the handler answers.
Return ==
    /\ Running
    /\ pending.ep # "none"
    /\ \E out \in BackendOutcomes :
          Handled(pending.ep, pending.body, Call(pending.ep, pending.parms),
                  out, AfterInvoke(pending.ep, out))

(***************************************************************************)
(* /handle/file/get, registered by addFrameHandlers.                       *)
(***************************************************************************)
\* Paths a client may put in the File field, and what the disk holds there.
Paths == {"/gopath/src/main.go", "/etc/passwd", "/etc", "/missing"}

PathKind(path) ==
    CASE path = "/gopath/src/main.go" -> "file"
      [] path = "/etc/passwd"         -> "file"
      [] path = "/etc"                -> "dir"
      [] OTHER                        -> "missing"

\* The bytes of a file, in the chunks io.Copy writes; a directory has none
\* to read.
Content(path) ==
    IF PathKind(path) = "file" THEN <<"bytes 1 of " \o path, "bytes 2 of " \o path>>
    ELSE <<>>

\* The check the handler's FIXME asks for: the path resides in GOPATH or
\* GOROOT.
InRoots(path) == path = "/gopath/src/main.go"

\* Bodies for parms := make(map[string]string): f1 is the File member.
FileBodies ==
    {[kind |-> "syntax", f1 |-> "absent", f2 |-> "absent"],
     [kind |-> "empty", f1 |-> "absent", f2 |-> "absent"]}
    \cup [kind : {"object"}, f1 : {"absent", "badtype"} \cup Paths, f2 : {"absent"}]

\* decoder.Decode(&parms) into the map, then parms["File"]: the string
\* given, or "" when the member is absent.
DecodeFile(body) ==
    [err  |-> Decode(body).err,
     file |-> IF body.f1 \in Paths THEN body.f1 ELSE Nil]

\* file, err := os.Open(path)
OsOpenContained(path) ==
    [err |-> IF PathKind(path) = "missing" \/ ~InRoots(path)
             THEN "open " \o path \o ": refused" ELSE Nil]

OsOpen(path) ==
    [err |-> IF PathKind(path) = "missing"
             THEN "open " \o path \o ": no such file or directory" ELSE Nil]

\* _, err := io.Copy(w, file): the chunks written before it ended, and its
\* error.  Reading a directory fails at once; reading a file, or writing
\* to the client, may fail after any number of chunks.
CopyOutcomes(path) ==
    {cp \in [n : 0..Len(Content(path)), err : {Nil, "copy failed"}] :
        cp.err = Nil => (PathKind(path) = "file" /\ cp.n = Len(Content(path)))}

IoCopy(path, cp) == [i \in 1..cp.n |-> WriteBody(Content(path)[i])]

\* if err != nil { 400, err.Error(); return }
\* file, err := os.Open(parms["File"])
\* if err != nil { 500, err.Error() }
\* else { w.WriteHeader(200); _, err := io.Copy(w, file)
\*        if err != nil { w.WriteHeader(500); w.Write([]byte(err.Error())) } }
FileResponse(d, o, cp) ==
    IF d.err # Nil THEN ErrorResponse(400, d.err)
    ELSE IF o.err # Nil THEN ErrorResponse(500, o.err)
    ELSE <<WriteHeader(200)>> \o IoCopy(d.file, cp)
            \o (IF cp.err # Nil THEN ErrorResponse(500, cp.err) ELSE <<>>)

FileGetHandler ==
    /\ Running
    /\ served < MaxRequests
    /\ served' = served + 1
    /\ \E body \in FileBodies :
          LET d == DecodeFile(body)
              o == OsOpen(d.file)
          IN \E cp \in CopyOutcomes(d.file) :
                last' = [ep |-> "/handle/file/get",
                         body |-> [kind |-> body.kind, f1 |-> body.f1, f2 |-> body.f2],
                         invoked |-> <<>>, opErr |-> Nil, result |-> Nil,
                         opens |-> IF d.err = Nil THEN <<d.file>> ELSE <<>>,
                         copyErr |-> IF d.err = Nil /\ o.err = Nil THEN cp.err ELSE Nil,
                         resp |-> FileResponse(d, o, cp)]
    /\ UNCHANGED <<muxVars, resVars, backendCalls, pending>>

\* The status the client sees: that of the first WriteHeader, or 200 when
\* the handler wrote a body without one; 0 when it did neither.
Status(resp) ==
    IF resp = <<>> THEN 0
    ELSE IF resp[1][1] = "WriteHeader" THEN resp[1][2] ELSE 200

\* The body the client sees: the texts written, in order.
BodyOf(resp) ==
    LET w == SelectSeq(resp, LAMBDA o : o[1] = "Write")
    IN [i \in 1..Len(w) |-> w[i][3]]


(***************************************************************************)
(* The resource resolver: chainedFileSystem and noReaddirFile, served by   *)
(* http.FileServer(cfs).                                                   *)
(***************************************************************************)
\* Largest number of bundles in the bundle directory.
MaxProviders == 2

\* Number of entries in a directory of a bundle.
DirSize == 2

\* Asset names a browser may request.
Names == {"x", "y"}

\* What a bundle's web folder holds under a name.
Kinds == {"absent", "file", "dir"}

\* http.Dir(bundle_root_dir + "/" + bundleName + "/web"), by its contents.
Providers == [Names -> Kinds]

RECURSIVE ListsOf(_)
ListsOf(n) ==
    IF n = 0 THEN {<<>>}
    ELSE LET shorter == ListsOf(n - 1)
         IN shorter \cup {Append(l, p) : l \in {m \in shorter : Len(m) = n - 1},
                                         p \in Providers}

ProviderLists == ListsOf(MaxProviders)

\* The arguments Readdir may get: all entries (count <= 0) or at most count.
Counts == -1 .. DirSize + 1

NoFile == <<>>
NoError == <<>>

\* file, _ := os.Open(bundle_root_dir); bundleNames, _ := file.Readdirnames(-1)
\* and one http.Dir per name: a directory that cannot be read gives no names.
BundleFileSystems(readable, bundles) == IF readable THEN bundles ELSE <<>>

\* cfs.fs[i].Open(name): the file of provider i, or that provider's error.
ProviderOpen(list, i, name) ==
    [f   |-> IF list[i][name] = "absent" THEN NoFile ELSE <<i, name>>,
     err |-> IF list[i][name] = "absent" THEN <<"open", i, name>> ELSE NoError]

\* var lastIdx = len(cfs.fs) - 1, counting providers from 1.
FirstIdx(list) == 1

LastIdx(list) == Len(list)

\* noReaddirFile{f}
noReaddirFile(f) == <<"noReaddirFile", f>>

\* return nil, errors.New("Algorithm failure")
NeitherResult(tried) == [handle |-> NoFile, err |-> NoError, tried |-> tried]

AlgorithmFailure(tried) ==
    [handle |-> NoFile, err |-> <<"Algorithm failure">>, tried |-> tried]

\* A resolver that prefers the last provider that has the name.
OpenLoopLastMatch(list, name, i, tried) ==
    LET all  == [k \in 1..Len(list) |-> k]
        hits == {k \in 1..Len(list) : ProviderOpen(list, k, name).err = NoError}
    IN IF list = <<>> THEN AlgorithmFailure(tried)
       ELSE IF hits = {}
       THEN [handle |-> NoFile, err |-> ProviderOpen(list, Len(list), name).err,
             tried |-> all]
       ELSE LET k == CHOOSE h \in hits : \A g \in hits : g <= h
            IN [handle |-> noReaddirFile(ProviderOpen(list, k, name).f),
                err |-> NoError, tried |-> all]

\* for i := range cfs.fs { f, err := cfs.fs[i].Open(name)
\*   if i == lastIdx && err != nil { return nil, err }
\*   else if err == nil { return noReaddirFile{f}, nil } }
\* return nil, errors.New("Algorithm failure")
\* from iteration i on; tried lists the providers consulted so far.
RECURSIVE OpenLoop(_, _, _, _)
OpenLoop(list, name, i, tried) ==
    IF i > Len(list) THEN AlgorithmFailure(tried)
    ELSE LET r == ProviderOpen(list, i, name)
             t == Append(tried, i)
         IN IF i = LastIdx(list) /\ r.err # NoError
            THEN [handle |-> NoFile, err |-> r.err, tried |-> t]
            ELSE IF r.err = NoError
            THEN [handle |-> noReaddirFile(r.f), err |-> NoError, tried |-> t]
            ELSE OpenLoop(list, name, i + 1, t)

\* func (cfs chainedFileSystem) Open(name string) (http.File, error)
Open(list, name) == OpenLoop(list, name, 1, <<>>)

\* Readdir of the file a provider returned: os.File.Readdir.
FileReaddir(list, f, count) ==
    LET n == IF list[f[1]][f[2]] = "dir" THEN DirSize ELSE 0
    IN <<IF count <= 0 \/ count > n THEN n ELSE count, NoError>>

\* The method the handle would have without noReaddirFile.Readdir: the
\* embedded http.File's.
ReaddirEmbedded(list, file, count) == FileReaddir(list, file[2], count)

\* func (file noReaddirFile) Readdir(count int) ([]os.FileInfo, error)
\* { return nil, nil }: <<number of entries, error>>.
Readdir(list, file, count) == <<0, NoError>>

\* The goroutine of main builds cfs from the bundle directory and hands it
\* to http.Handle("/", http.FileServer(cfs)).
StartServing ==
    /\ Running
    /\ ~serving
    /\ \E readable \in BOOLEAN : \E bundles \in ProviderLists :
          fs' = BundleFileSystems(readable, bundles)
    /\ serving' = TRUE
    /\ UNCHANGED <<muxVars, dispVars, opened, listing>>

\* The file server opens a name on cfs.
ServeOpen ==
    /\ Running
    /\ serving
    /\ \E name \in Names :
          LET r == Open(fs, name)
          IN opened' = [name |-> name, handle |-> r.handle, err |-> r.err,
                        tried |-> r.tried]
    /\ listing' = <<>>
    /\ UNCHANGED <<muxVars, dispVars, serving, fs>>

\* The file server lists the handle it was given.
ServeReaddir ==
    /\ Running
    /\ serving
    /\ opened.handle # NoFile
    /\ \E count \in Counts :
          LET r == Readdir(fs, opened.handle, count)
          IN listing' = <<count, r[1], r[2]>>
    /\ UNCHANGED <<muxVars, dispVars, serving, fs, opened>>

(***************************************************************************)
(* The multiplexer's specification.                                        *)
(***************************************************************************)
Init ==
    /\ chan = [ch \in Channels |-> <<>>]
    /\ emitted = [ch \in Channels |-> 0]
    /\ session = "Active"
    /\ transitions = 0
    /\ exitCalls = 0
    /\ pc = [c \in Conns |-> "none"]
    /\ writable = [c \in Conns |-> TRUE]
    /\ attempts = [c \in Conns |-> <<>>]
    /\ elapsed = [c \in Conns |-> 0]
    /\ sinceData = [c \in Conns |-> -1]
    /\ brokenFor = [c \in Conns |-> -1]
    /\ exitReqs = 0
    /\ mainpc = "waiting"
    /\ waitReturns = 0
    /\ served = 0
    /\ backendCalls = 0
    /\ last = [ep |-> "none", body |-> NoBody, invoked |-> <<>>,
               opErr |-> Nil, result |-> Nil, opens |-> <<>>, copyErr |-> Nil,
               resp |-> <<>>]
    /\ pending = NoRequest
    /\ serving = FALSE
    /\ fs = <<>>
    /\ opened = [name |-> Nil, handle |-> NoFile, err |-> NoError, tried |-> <<>>]
    /\ listing = <<>>

LoopStep(c) ==
    \/ \E ch \in Channels : Deliver(c, ch)
    \/ Heartbeat(c)

Next ==
    \/ \E ch \in Channels : Emit(ch)
    \/ BackendExit
    \/ \E c \in Conns : Connect(c)
    \/ \E c \in Conns : Break(c)
    \/ \E c \in Conns : LoopStep(c)
    \/ Tick
    \/ ExitEndpoint
    \/ MainWait

Spec == Init /\ [][Next]_vars

\* The dispatcher alone: requests to the /handle/... endpoints, one after
\* another (the handlers share no state of the bridge).
DispatchNext ==
    \/ \E ep \in ExecEndpoints : ExecHandler(ep)
    \/ \E ep \in ParmDataEndpoints : ParmDataHandler(ep)
    \/ \E ep \in ListEndpoints : ListHandler(ep)
    \/ \E ep \in EnableEndpoints : EnableHandler(ep)
    \/ FileGetHandler

DispatchSpec == Init /\ [][DispatchNext]_vars

\* Requests to the dispatcher while the session ends: a handler blocks in
\* its operation, other goroutines run, the operation returns.  Go runs
\* every goroutine that can run while the process lives.
InFlightNext ==
    \/ \E ep \in ParmEndpoints \cup ListEndpoints : Invoke(ep)
    \/ Return
    \/ BackendExit
    \/ ExitEndpoint
    \/ MainWait

InFlightSpec ==
    /\ Init
    /\ [][InFlightNext]_vars
    /\ WF_vars(Return)
    /\ WF_vars(MainWait)

\* The file server alone: cfs is built once, then names are opened and
\* the handles listed.
ResolverNext ==
    \/ StartServing
    \/ ServeOpen
    \/ ServeReaddir

ResolverSpec == Init /\ [][ResolverNext]_vars

\* The environment the design assumes: one client of /output, connecting
\* once.  The program's actions are those of Next.
OneClientNext ==
    \/ \E ch \in Channels : Emit(ch)
    \/ BackendExit
    \/ Connect(1)
    \/ \E c \in Conns : Break(c)
    \/ \E c \in Conns : LoopStep(c)
    \/ Tick
    \/ ExitEndpoint
    \/ MainWait

OneClientSpec == Init /\ [][OneClientNext]_vars

\* The same with a quiet debugged program: the backend emits console
\* output and async records only.
QuietChannels == {"Console", "AsyncResults"}

QuietNext ==
    \/ \E ch \in QuietChannels : Emit(ch)
    \/ BackendExit
    \/ Connect(1)
    \/ \E c \in Conns : Break(c)
    \/ LoopStep(1)
    \/ Tick
    \/ ExitEndpoint
    \/ MainWait

\* Go runs every goroutine that can run: a loop whose select has a ready
\* case, main once Wait can return; and time passes.
OneClientFairSpec ==
    /\ Init
    /\ [][QuietNext]_vars
    /\ WF_vars(Tick)
    /\ WF_vars(MainWait)
    /\ WF_vars(LoopStep(1))

(***************************************************************************)
(* Observations on a loop's record of writes.                              *)
(***************************************************************************)
IsData(a) == a.env[1] # "heartbeat"

FromChannel(a, ch) == IsData(a) /\ a.env[2][1] = ch

\* The envelopes of channel ch that reached client c, in the order written.
DeliveredOf(c, ch) ==
    SelectSeq(attempts[c], LAMBDA a : a.ok /\ FromChannel(a, ch))

Received(ch) == emitted[ch] - Len(chan[ch])

\* Loop c is running and no other loop is.
OnlyLoop(c) == \A d \in Conns : pc[d] = "select" <=> d = c

Failed(c) == \E i \in 1..Len(attempts[c]) : ~attempts[c][i].ok

\* Loop c has just handed an envelope to ws.Write.
Wrote(c) == Len(attempts'[c]) = Len(attempts[c]) + 1

LastWrite(log) == log[Len(log)]

(***************************************************************************)
(* C1: the events e1..eN the backend emits on one channel reach the        *)
(* client, while its connection is writable, as envelopes in that same     *)
(* order, each tagged with that channel's own kind, however they           *)
(* interleave with the other channels and the heartbeat.                   *)
(***************************************************************************)
C1_OrderWithinChannel ==
    \A c \in Conns : \A ch \in Channels :
        LET s == DeliveredOf(c, ch)
        IN /\ \A i \in 1..Len(s) : s[i].env[1] = TypeOf(ch)
           /\ \A i, j \in 1..Len(s) : i < j => s[i].env[2][2] < s[j].env[2][2]
           /\ writable[c] /\ OnlyLoop(c) =>
                 /\ Len(s) = Received(ch)
                 /\ \A i \in 1..Len(s) : s[i].env[2] = <<ch, i>>

\* Two events of one channel delivered in order with a heartbeat between.
C1_Witness ==
    \E c \in Conns : \E ch \in Channels :
        /\ writable[c]
        /\ Len(attempts[c]) = 3
        /\ \A i \in 1..3 : attempts[c][i].ok
        /\ attempts[c][1].env = <<TypeOf(ch), <<ch, 1>>>>
        /\ attempts[c][2].env[1] = "heartbeat"
        /\ attempts[c][3].env = <<TypeOf(ch), <<ch, 2>>>>

(***************************************************************************)
(* C2: whenever a write of an envelope fails, from a data channel or from  *)
(* the heartbeat timer, GdbExit is invoked in that same iteration, before  *)
(* the loop selects again, and the envelope is not written a second time.  *)
(***************************************************************************)
C2_TerminationOnWriteFailure ==
    [][\A c \in Conns :
          Wrote(c) =>
             /\ ~LastWrite(attempts'[c]).ok =>
                   exitCalls' = exitCalls + 1 /\ session' = "Terminated"
             /\ \A i \in 1..Len(attempts[c]) :
                   IsData(attempts[c][i]) =>
                      attempts[c][i].env # LastWrite(attempts'[c]).env]_vars

\* A data write and a heartbeat write have both failed, each with its GdbExit.
C2_Witness ==
    \E c \in Conns : \E i, j \in 1..Len(attempts[c]) :
        /\ ~attempts[c][i].ok /\ IsData(attempts[c][i])
        /\ ~attempts[c][j].ok /\ ~IsData(attempts[c][j])
        /\ exitCalls >= 2
        /\ session = "Terminated"

(***************************************************************************)
(* C3: after a write failure has invoked termination the loop exits: it    *)
(* attempts no further write, receives no further event and does not       *)
(* invoke termination again.                                               *)
(***************************************************************************)
C3_LoopExitsAfterTermination ==
    [][\A c \in Conns :
          Failed(c) =>
             /\ attempts'[c] = attempts[c]
             /\ chan' = chan \/ \E ch \in Channels : Len(chan'[ch]) > Len(chan[ch])
             /\ exitCalls' - exitReqs' = exitCalls - exitReqs]_vars

(***************************************************************************)
(* C4: at every moment at most one task receives from the four backend     *)
(* channels, whatever the sequence of connects to /output.                 *)
(***************************************************************************)
C4_SingleConsumer == Cardinality({c \in Conns : pc[c] = "select"}) <= 1

C6_BrokenClientEndsSession ==
    /\ [][\A c \in Conns :
            (session' = "Active" /\ mainpc' = "waiting" /\ brokenFor'[c] >= 0)
               => brokenFor'[c] < HeartbeatSeconds + TickSeconds]_vars
    /\ (\E c \in Conns : pc[c] = "select" /\ ~writable[c])
          ~> (session = "Terminated" /\ mainpc # "waiting")

\* The session was ended by a failed heartbeat, a full interval after the
\* connection broke, with no event received since, and main's wait returned.
C6_Witness ==
    \E c \in Conns :
        /\ brokenFor[c] >= HeartbeatSeconds
        /\ attempts[c] # <<>>
        /\ ~LastWrite(attempts[c]).ok
        /\ ~IsData(LastWrite(attempts[c]))
        /\ exitReqs = 0
        /\ exitCalls = 1
        /\ waitReturns = 1

(***************************************************************************)
(* C7: a heartbeat is written to a client only when a full interval has    *)
(* passed since the loop's select began, hence no sooner than one interval *)
(* after the last data envelope delivered to that client.                  *)
(***************************************************************************)
C7_HeartbeatSuppressed ==
    [][\A c \in Conns :
          (Wrote(c) /\ ~IsData(LastWrite(attempts'[c]))) =>
             /\ elapsed[c] >= HeartbeatSeconds
             /\ sinceData[c] < 0 \/ sinceData[c] >= HeartbeatSeconds]_vars

\* A data envelope, and an interval later a heartbeat, reached the client.
C7_Witness ==
    \E c \in Conns : \E i \in 1..Len(attempts[c]) :
        /\ i > 1
        /\ IsData(attempts[c][i - 1]) /\ attempts[c][i - 1].ok
        /\ ~IsData(attempts[c][i]) /\ attempts[c][i].ok
        /\ sinceData[c] >= HeartbeatSeconds

(***************************************************************************)
(* Observations on a dispatcher request.                                   *)
(***************************************************************************)
\* Bodies encoding/json refuses, and the texts of its errors.
Undecodable(body) ==
    \/ body.kind = "syntax"
    \/ body.kind = "empty"
    \/ body.kind = "object" /\ (body.f1 = "badtype" \/ body.f2 = "badtype")

DecodeErrorTexts == {"invalid character", "EOF", "json: cannot unmarshal"}

\* A request has just been handled.
Served == served' = served + 1

(***************************************************************************)
(* C8: on every endpoint that takes parameters, a body that fails to       *)
(* decode gets status 400 with the decode error's text as body, and the    *)
(* gdblib operation is not invoked: the session is left as it was.         *)
(***************************************************************************)
C8_DecodeFailureIs400 ==
    [][(Served /\ last'.ep \in ParmEndpoints /\ Undecodable(last'.body)) =>
          /\ Status(last'.resp) = 400
          /\ \E t \in DecodeErrorTexts : BodyOf(last'.resp) = <<t>>
          /\ last'.invoked = <<>>
          /\ backendCalls' = backendCalls]_vars

\* /handle/thread/select got a malformed body after an earlier request had
\* reached the backend.
C8_Witness ==
    /\ last.ep = "/handle/thread/select"
    /\ last.body.kind = "syntax"
    /\ Status(last.resp) = 400
    /\ last.invoked = <<>>
    /\ backendCalls >= 1

(***************************************************************************)
(* C9: no endpoint invokes its gdblib operation with a parameter value in  *)
(* which a field was not supplied by the request and is left at its zero   *)
(* value.                                                                  *)
(***************************************************************************)
C9_NoDefaultedParms ==
    (last.ep \in ParmEndpoints /\ last.invoked # <<>>) =>
        last.body.f1 \in FieldValues /\ last.body.f2 \in FieldValues

(***************************************************************************)
(* C10: on every endpoint that invokes a gdblib operation, an error        *)
(* returned by the operation gets status 400 with the error's text as      *)
(* body.                                                                   *)
(***************************************************************************)
C10_BackendErrorIs400 ==
    last.opErr # Nil =>
        Status(last.resp) = 400 /\ BodyOf(last.resp) = <<last.opErr>>

(***************************************************************************)
(* Observations on the resolver.                                           *)
(***************************************************************************)
\* cfs.Open has been called on the list that is being served.
Opened == serving /\ opened.name # Nil

\* Provider i of the served list has the name last opened.
Has(i) == fs[i][opened.name] # "absent"

\* The providers of the served list that have the name last opened.
Holders == {i \in 1..Len(fs) : Has(i)}

(***************************************************************************)
(* C11: on a non-empty provider list, Open returns the handle of the       *)
(* lowest-index provider that has the name: the providers before it were   *)
(* each tried once, in list order, and failed, and those after it were not *)
(* consulted; for [A, B] with the name only in B, the handle is B's.       *)
(***************************************************************************)
C11_FirstMatchWins ==
    (Opened /\ fs # <<>> /\ Holders # {}) =>
        LET k == CHOOSE i \in Holders : \A j \in Holders : i <= j
        IN /\ opened.handle = noReaddirFile(<<k, opened.name>>)
           /\ opened.err = NoError
           /\ opened.tried = [i \in 1..k |-> i]
           /\ \A j \in 1..(k - 1) : ~Has(j)
           /\ (Len(fs) = 2 /\ ~Has(1) /\ Has(2)) => opened.handle[2][1] = 2

\* [A, B]: A lacks x, B has it, and x was opened.
C11_Witness ==
    /\ Opened
    /\ Len(fs) = 2
    /\ opened.name = "x"
    /\ fs[1]["x"] = "absent"
    /\ fs[2]["x"] = "file"
    /\ opened.handle = noReaddirFile(<<2, "x">>)
    /\ opened.tried = <<1, 2>>

(***************************************************************************)
(* C12: when every provider of the list fails to open the name, Open       *)
(* returns no handle and the error of the last provider of the list, not   *)
(* the first provider's and not an aggregate.                              *)
(***************************************************************************)
C12_LastErrorSurfaces ==
    (Opened /\ fs # <<>> /\ Holders = {}) =>
        /\ opened.handle = NoFile
        /\ opened.err = ProviderOpen(fs, Len(fs), opened.name).err
        /\ Len(fs) > 1 => opened.err # ProviderOpen(fs, 1, opened.name).err

\* Two providers, neither has the name; the error is the second's.
C12_Witness ==
    /\ Opened
    /\ Len(fs) = 2
    /\ Holders = {}
    /\ opened.err = <<"open", 2, opened.name>>

(***************************************************************************)
(* C13: Readdir on a handle returned by Open reports zero entries and no   *)
(* error, for every count and whichever provider the handle came from,     *)
(* whatever the provider's directory holds.                                *)
(***************************************************************************)
C13_NoDirectoryListing ==
    listing # <<>> => listing[2] = 0 /\ listing[3] = NoError

\* All entries were asked of a handle on a directory of the second provider.
C13_Witness ==
    /\ listing # <<>>
    /\ listing[1] = -1
    /\ opened.handle # NoFile
    /\ opened.handle[2][1] = 2
    /\ fs[2][opened.name] = "dir"
    /\ FileReaddir(fs, opened.handle[2], -1)[1] = DirSize

(***************************************************************************)
(* C19: for every provider list, the empty one included, Open returns      *)
(* either a handle or an error, never both and never neither; for the      *)
(* empty list, which an empty or unreadable bundle directory gives, it     *)
(* returns an error.                                                       *)
(***************************************************************************)
C19_HandleXorError ==
    Opened =>
        /\ (opened.handle # NoFile) # (opened.err # NoError)
        /\ fs = <<>> => opened.handle = NoFile /\ opened.err # NoError

\* A name was opened on the empty list.
C19_Witness ==
    /\ Opened
    /\ fs = <<>>
    /\ opened.err = <<"Algorithm failure">>
    /\ opened.tried = <<>>

(***************************************************************************)
(* C14: when decoding and the operation both succeed, a pure command       *)
(* endpoint answers 200 with an empty body, and a data endpoint answers    *)
(* 200 with the encoded result, or 500 with the encoding error's text when *)
(* the result does not encode; the operation was invoked once for the      *)
(* request.                                                                *)
(***************************************************************************)
CommandEndpoints == ExecEndpoints \cup EnableEndpoints

DataEndpoints == ParmDataEndpoints \cup ListEndpoints

C14_SuccessResponses ==
    [][(Served /\ last'.invoked # <<>> /\ last'.opErr = Nil) =>
          /\ last'.ep \in CommandEndpoints =>
                Status(last'.resp) = 200 /\ BodyOf(last'.resp) = <<>>
          /\ last'.ep \in DataEndpoints =>
                LET m == MarshalResult(last'.result)
                IN IF m.err = Nil
                   THEN Status(last'.resp) = 200 /\ BodyOf(last'.resp) = <<m.bytes>>
                   ELSE Status(last'.resp) = 500 /\ BodyOf(last'.resp) = <<m.err>>
          /\ Len(last'.invoked) = 1
          /\ last'.invoked[1].op = OpOf(last'.ep)
          /\ backendCalls' = backendCalls + 1]_vars

\* /handle/breakpoint/insert succeeded with a result that does not encode,
\* after a pure command had answered.
C14_Witness ==
    /\ last.ep = "/handle/breakpoint/insert"
    /\ last.opErr = Nil
    /\ last.result = "unencodable"
    /\ Status(last.resp) = 500
    /\ backendCalls = 2
    /\ served = 2

(***************************************************************************)
(* C15: once the session is Terminated, a request that invokes its         *)
(* operation afterwards, or whose operation was running when the session   *)
(* ended, is answered, with an error status and the error's text; no       *)
(* handler is left without completing.                                     *)
(***************************************************************************)
C15_FailsExplicitlyAfterTermination ==
    /\ [][(Served /\ session = "Terminated") =>
             Status(last'.resp) >= 400 /\ BodyOf(last'.resp) # <<>>]_vars
    /\ (session = "Terminated" /\ pending.ep # "none") ~> (pending.ep = "none")

(***************************************************************************)
(* Observations on one iteration of a loop.                                *)
(***************************************************************************)
\* An event of channel ch has just been received.
ReceivedFrom(ch) == Len(chan'[ch]) < Len(chan[ch])

\* The writes, by any loop, of the n-th event of channel ch.
WritesOf(ch, n) ==
    {w \in {<<c, i>> : c \in Conns, i \in 1..MaxAttempts + 1} :
        /\ w[2] <= Len(attempts[w[1]])
        /\ attempts[w[1]][w[2]].env = <<TypeOf(ch), <<ch, n>>>>}

C17_HeartbeatOnExpiry ==
    /\ [][\A c \in Conns :
            /\ (Wrote(c) /\ ~IsData(LastWrite(attempts'[c]))) =>
                  /\ elapsed[c] >= HeartbeatSeconds
                  /\ chan' = chan
                  /\ LastWrite(attempts'[c]).env = <<"heartbeat", "">>
                  /\ elapsed'[c] = 0
            /\ (pc[c] = "select" /\ elapsed[c] >= HeartbeatSeconds
                  /\ elapsed'[c] = 0 /\ chan' = chan) =>
                  Wrote(c) /\ ~IsData(LastWrite(attempts'[c]))]_vars
    /\ (pc[1] = "select" /\ elapsed[1] >= HeartbeatSeconds /\ Budget)
          ~> (elapsed[1] < HeartbeatSeconds \/ mainpc # "waiting")

\* Two intervals passed without an event: two heartbeats, and a third
\* interval has begun.
C17_Witness ==
    \E c \in Conns :
        /\ Len(attempts[c]) = 2
        /\ \A i \in 1..2 : attempts[c][i].env = <<"heartbeat", "">> /\ attempts[c][i].ok
        /\ sinceData[c] = -1
        /\ \A ch \in Channels : emitted[ch] = 0
        /\ elapsed[c] = TickSeconds

(***************************************************************************)
(* C18: in /handle/file/get, once the body has decoded, the path in the    *)
(* File member is opened exactly as given, inside or outside the source    *)
(* roots; when the open fails the answer is 500 with the open error's      *)
(* text, when it succeeds the answer is 200 followed by the file's bytes   *)
(* (all of them when the copy completes); no gdblib operation is invoked.  *)
(***************************************************************************)
FileGot == Served /\ last'.ep = "/handle/file/get"

ErrorTexts ==
    DecodeErrorTexts \cup {"backend error", "json: unsupported value", "copy failed",
                           "session terminated"}
    \cup {OsOpen(p).err : p \in Paths \cup {Nil}}

C20_StatusSetOnce ==
    LET resp    == last.resp
        headers == {i \in 1..Len(resp) : resp[i][1] = "WriteHeader"}
    IN /\ Cardinality(headers) <= 1
       /\ \A i, j \in 1..Len(resp) :
             (i < j /\ resp[i] = WriteHeader(200)) =>
                /\ resp[j][1] = "Write"
                /\ resp[j][3] \notin ErrorTexts \ {Nil}

=============================================================================
